---- MODULE Spec2Model ----
(***************************************************************************)
(* Line Arrange (chitwan27/lineArrange): a model of the text transforms of *)
(* the plugin -- line, block and heading granularity, each with the four   *)
(* orderings sort (visual width), lexisort, shuffle and reverse.           *)
(*                                                                         *)
(* A text is a sequence of one-character strings; a line is a text without *)
(* the newline character.  The editor's selection is the program state the *)
(* commands read and replace.                                              *)
(***************************************************************************)
EXTENDS Integers, Sequences, FiniteSets, TLC

VARIABLES
    selection,    \* the editor's selected text (what ed.getSelection() returns)
    settings,     \* this.settings
    canvas,       \* whether canvas.getContext("2d") gives a context
    language,     \* navigator.language
    lastCmd,      \* id of the command that replaced the selection last ("none" before the first)
    lastIn,       \* the selection that command read
    lastOut,      \* the text that command handed to ed.replaceSelection
    lastSettings, \* the settings that command ran under
    lastLocale,   \* the locale handed to localeCompare last (NoLocale before the first call)
    rejected,     \* id of the command whose promise was rejected since the last
                  \* replacement of the selection ("none" if there is none)
    fontSpec,     \* what getFontSpec() returns now (the theme's computed style)
    renderCache,  \* this.renderCache: the entries, one per key
    headingScales, \* this.headingScales: NoScales (null) or the six scale factors
    calls,        \* the sort commands suspended at await MarkdownRenderer.render
    history       \* what the last step did: its event, whether a measurement
                  \* returned, whether it was a cache hit, whether the text
                  \* replaced was the text read; and
                  \* whether the font specification ever changed; the commands started

vars ==
    <<selection, settings, canvas, language, lastCmd, lastIn, lastOut, lastSettings,
      lastLocale, rejected, fontSpec, renderCache, headingScales, calls, history>>

\* the render cache and the measurements in flight
cacheVars == <<fontSpec, renderCache, headingScales, calls, history>>

(***************************************************************************)
(* Bounds of the model                                                     *)
(***************************************************************************)
MaxTextLen == 5

NL == "\n"

\* the characters the bounded texts are drawn from
Alphabet == {"#", " ", "a", NL}

(***************************************************************************)
(* JavaScript string primitives                                            *)
(***************************************************************************)
\* \s of a JavaScript regular expression, and the characters trim() removes
IsWhitespace(c) == c \in {" ", "\t", NL}

Reverse(s) == [i \in 1..Len(s) |-> s[Len(s) + 1 - i]]

\* number of leading whitespace characters of s
RECURSIVE LeadingWhitespace(_)
LeadingWhitespace(s) ==
    IF Len(s) > 0 /\ IsWhitespace(s[1]) THEN 1 + LeadingWhitespace(Tail(s)) ELSE 0

\* String.prototype.trimStart / trimEnd / trim
trimStart(s) == SubSeq(s, LeadingWhitespace(s) + 1, Len(s))
trimEnd(s) == SubSeq(s, 1, Len(s) - LeadingWhitespace(Reverse(s)))
trim(s) == trimEnd(trimStart(s))

\* orgText.split("\n")
RECURSIVE split(_)
split(s) ==
    IF \A i \in 1..Len(s) : s[i] # NL
    THEN <<s>>
    ELSE LET k == CHOOSE i \in 1..Len(s) : s[i] = NL /\ \A j \in 1..(i - 1) : s[j] # NL
         IN  <<SubSeq(s, 1, k - 1)>> \o split(SubSeq(s, k + 1, Len(s)))

\* lines.join("\n")
RECURSIVE join(_)
join(lines) ==
    IF Len(lines) = 0 THEN <<>>
    ELSE IF Len(lines) = 1 THEN lines[1]
    ELSE lines[1] \o <<NL>> \o join(Tail(lines))

\* l.trim() === ""
IsBlank(l) == trim(l) = <<>>

\* number of leading "#" characters of s
RECURSIVE LeadingHashes(_)
LeadingHashes(s) ==
    IF Len(s) > 0 /\ s[1] = "#" THEN 1 + LeadingHashes(Tail(s)) ELSE 0

\* line.match(/^\s*(#+)\s/): the length of the captured run of "#", 0 when the
\* line does not match
HeadingMatch(line) ==
    LET rest == trimStart(line)
        h    == LeadingHashes(rest)
    IN  IF h > 0 /\ Len(rest) > h /\ IsWhitespace(rest[h + 1]) THEN h ELSE 0

(***************************************************************************)
(* The renderer: Markdown to plain text, canvas text metrics, heading      *)
(* scale.  These are the host's; the tables fix one renderer and one font  *)
(* specification.                                                          *)
(***************************************************************************)
\* advance width of a character, in 1/100 px
CharWidth(c) ==
    CASE c \in {" ", "t", "\t"} -> 445
      [] c \in {"i", "j", "l"} -> 355
      [] c = "-" -> 533
      [] c \in {"s", "x", "y", "z"} -> 800
      [] c \in {"A", "B"} -> 1067
      [] OTHER -> 890

\* ctx.measureText(s).width, in 1/100 px
RECURSIVE measureText(_)
measureText(s) == IF s = <<>> THEN 0 ELSE CharWidth(s[1]) + measureText(Tail(s))

\* getHeadingScale(level): font size of <h1>..<h6> relative to body text, in percent
getHeadingScale(level) ==
    CASE level = 1 -> 180
      [] level = 2 -> 160
      [] level = 3 -> 142
      [] level = 4 -> 127
      [] level = 5 -> 113
      [] OTHER -> 100

\* src.match(/^(#{1,6})\s+/): the heading level, 0 when src does not match
SrcHeadingLevel(src) ==
    LET h == LeadingHashes(src)
    IN  IF h >= 1 /\ h <= 6 /\ Len(src) > h /\ IsWhitespace(src[h + 1]) THEN h ELSE 0

\* MarkdownRenderer.render(...) followed by tmp.innerText: the text that displays.
\* A heading marker and a list marker are not displayed.
RenderMarkdown(cleanSrc) ==
    LET h == SrcHeadingLevel(cleanSrc)
    IN  IF h > 0 THEN SubSeq(cleanSrc, h + 1, Len(cleanSrc))
        ELSE IF Len(cleanSrc) >= 2 /\ cleanSrc[1] = "-" /\ IsWhitespace(cleanSrc[2])
             THEN SubSeq(cleanSrc, 2, Len(cleanSrc))
             ELSE cleanSrc

\* getRenderCacheEntry(src): the entry computed for a line, rendered text and
\* width: the measured width scaled by 10000 when there is a canvas context,
\* else the fallback rendered.length * 10
getRenderCacheEntry(src) ==
    LET cleanSrc == trimStart(src)
        shown    == trim(RenderMarkdown(cleanSrc))
        rendered == IF shown # <<>> THEN shown ELSE cleanSrc
        level    == SrcHeadingLevel(src)
    IN  [renderedText |-> rendered,
         width |-> IF ~canvas THEN Len(rendered) * 10
                   ELSE IF level > 0
                   THEN measureText(rendered) * getHeadingScale(level)
                   ELSE measureText(rendered) * 100]

(***************************************************************************)
(* Locale                                                                  *)
(***************************************************************************)
\* the locales the engine's collator supports (Intl.Collator.supportedLocalesOf)
SupportedLocales == {<<"e", "n">>, <<"f", "r">>, <<"d", "e">>, <<"e", "s">>}

\* the structurally valid BCP-47 tags: Intl.getCanonicalLocales and
\* localeCompare throw a RangeError on any other tag, the empty one included
WellFormedTags == SupportedLocales \cup {<<"c", "u", "s", "t", "o", "m">>, <<"z", "z">>}

\* isValidLocale(tag)
isValidLocale(tag) ==
    LET t == trim(tag)
    IN  IF t = <<>> THEN TRUE ELSE t \in WellFormedTags /\ t \in SupportedLocales

\* navigator.language || "en"
SystemLocale == IF language # <<>> THEN language ELSE <<"e", "n">>

\* getLocale() under the settings cfg
getLocale(cfg) ==
    LET loc == trim(cfg.myLocale)
    IN  IF isValidLocale(loc) THEN loc ELSE SystemLocale

\* whether a.localeCompare(b, locale) throws a RangeError
localeCompareThrows(locale) == locale \notin WellFormedTags

(***************************************************************************)
(* Collation                                                               *)
(***************************************************************************)
\* primary collation weight of a character: whitespace, punctuation, letters
PrimaryWeight(c) ==
    CASE c = "\t" -> 1
      [] c = NL -> 2
      [] c = " " -> 3
      [] c = "-" -> 4
      [] c = "#" -> 5
      [] c \in {"a", "A"} -> 10
      [] c \in {"b", "B"} -> 11
      [] c = "e" -> 14
      [] c = "h" -> 17
      [] c = "i" -> 18
      [] c = "j" -> 19
      [] c = "l" -> 21
      [] c = "n" -> 23
      [] c = "o" -> 24
      [] c = "p" -> 25
      [] c = "s" -> 28
      [] c = "t" -> 29
      [] c = "u" -> 30
      [] c = "x" -> 33
      [] c = "y" -> 34
      [] c = "z" -> 35
      [] OTHER -> 40

\* tertiary (case) weight: lower case before upper case
TertiaryWeight(c) == IF c \in {"A", "B"} THEN 1 ELSE 0

\* lexicographic comparison of two strings by a weight of their characters
RECURSIVE CompareBy(_, _, _)
CompareBy(a, b, level) ==
    IF a = <<>> /\ b = <<>> THEN 0
    ELSE IF a = <<>> THEN -1
    ELSE IF b = <<>> THEN 1
    ELSE LET wa == IF level = 1 THEN PrimaryWeight(a[1]) ELSE TertiaryWeight(a[1])
             wb == IF level = 1 THEN PrimaryWeight(b[1]) ELSE TertiaryWeight(b[1])
         IN  IF wa < wb THEN -1
             ELSE IF wa > wb THEN 1
             ELSE CompareBy(Tail(a), Tail(b), level)

\* a.localeCompare(b, locale) for a locale the call accepts: primary weights
\* first, case to break a tie
localeCompare(a, b) ==
    LET p == CompareBy(a, b, 1)
    IN  IF p # 0 THEN p ELSE CompareBy(a, b, 3)

(***************************************************************************)
(* Array primitives                                                        *)
(***************************************************************************)
\* the comparator of the lexical sorts: localeCompare of the rendered texts,
\* then the original index
LexicalBefore(a, b) ==
    LET cmp == localeCompare(a.rendered, b.rendered)
    IN  IF cmp # 0 THEN cmp < 0 ELSE a.i < b.i

\* the comparator of the width sorts: (a.width - b.width) || (a.i - b.i)
WidthBefore(a, b) ==
    IF a.width # b.width THEN a.width < b.width ELSE a.i < b.i

\* the comparators without the original index as the tie-break
BeforeByKeyOnly(key, a, b) ==
    IF key = "width" THEN a.width < b.width
    ELSE localeCompare(a.rendered, b.rendered) < 0

\* whether item a goes before item b under the comparator named by key
Before(key, a, b) == IF key = "width" THEN WidthBefore(a, b) ELSE LexicalBefore(a, b)

\* items.sort(cmp), cmp being the comparator named by key: a strict total order
\* of the items, so the result is the one sorted arrangement
RECURSIVE SortBy(_, _)
SortBy(items, key) ==
    IF Len(items) = 0 THEN <<>>
    ELSE LET e == items[Len(items)]
             s == SortBy(SubSeq(items, 1, Len(items) - 1), key)
             k == Cardinality({i \in 1..Len(s) : Before(key, s[i], e)})
         IN  SubSeq(s, 1, k) \o <<e>> \o SubSeq(s, k + 1, Len(s))

\* index draws with j taken in 0..n-1 at every step, whatever i is
DrawsAnyIndex(n) == IF n <= 1 THEN {<<>>} ELSE [1..(n - 1) -> 0..(n - 1)]

\* the index draws of one shuffleArray call on n items: draws[i] is
\* Math.floor(Math.random() * (i + 1)) for i = n-1 down to 1 (0-based)
RECURSIVE Draws(_)
Draws(n) ==
    IF n <= 1 THEN {<<>>}
    ELSE {Append(d, j) : d \in Draws(n - 1), j \in 0..(n - 1)}

\* shuffleArray with out[i] = out[j] for the swap
shuffleArrayOverwrite(arr, draws) ==
    LET n == Len(arr)
        last == IF n > 1 THEN n - 1 ELSE 0
        step[done \in 0..last] ==
            IF done = 0 THEN arr
            ELSE LET out == step[done - 1]
                     i   == n - done
                     j   == draws[i]
                 IN  [out EXCEPT ![i + 1] = out[j + 1]]
    IN  step[last]

\* shuffleArray(arr) under the given draws: Fisher-Yates on a copy of arr
shuffleArray(arr, draws) ==
    LET n == Len(arr)
        last == IF n > 1 THEN n - 1 ELSE 0
        \* out after the iterations i = n-1, ..., n-done (0-based i)
        step[done \in 0..last] ==
            IF done = 0 THEN arr
            ELSE LET out == step[done - 1]
                     i   == n - done
                     j   == draws[i]
                 IN  [out EXCEPT ![i + 1] = out[j + 1], ![j + 1] = out[i + 1]]
    IN  step[last]

\* one call of shuffleArray: the caller's array after the call, which the
\* function only reads in arr.slice(), and the array it returns
shuffleArrayCall(arr, draws) == [arr |-> arr, returned |-> shuffleArray(arr, draws)]

\* every result shuffleArray(arr) can return
shuffleArrayOutcomes(arr) == {shuffleArray(arr, d) : d \in Draws(Len(arr))}

(***************************************************************************)
(* Line commands                                                           *)
(***************************************************************************)
\* the items of lexisortLines / sortLines: line, rendered text, width, index
LineItems(lines) ==
    [i \in 1..Len(lines) |->
        [line |-> lines[i],
         rendered |-> getRenderCacheEntry(lines[i]).renderedText,
         width |-> getRenderCacheEntry(lines[i]).width,
         i |-> i]]

ItemLines(items) == [k \in 1..Len(items) |-> items[k].line]

\* the orderer callbacks of the four commands; each gives the set of
\* arrangements it can return (one, unless it draws at random)
lexisortOrderer(lines) == {ItemLines(SortBy(LineItems(lines), "rendered"))}

sortOrderer(lines) == {ItemLines(SortBy(LineItems(lines), "width"))}

reverseOrderer(lines) == {Reverse(lines)}

shuffleOrderer(lines) == shuffleArrayOutcomes(lines)

\* orderer(lines) for the callback named by orderer
Order(orderer, lines) ==
    CASE orderer = "lexisort" -> lexisortOrderer(lines)
      [] orderer = "sort" -> sortOrderer(lines)
      [] orderer = "reverse" -> reverseOrderer(lines)
      [] orderer = "shuffle" -> shuffleOrderer(lines)

\* lines.filter(l => (l.trim() === "") === blank)
RECURSIVE FilterBlank(_, _)
FilterBlank(lines, blank) ==
    IF Len(lines) = 0 THEN <<>>
    ELSE (IF IsBlank(lines[1]) = blank THEN <<lines[1]>> ELSE <<>>)
         \o FilterBlank(Tail(lines), blank)

\* flush() of processLines: the results after the buffer went through the orderer
flush(result, buffer, orderer) ==
    IF Len(buffer) > 0 THEN {result \o ordered : ordered \in Order(orderer, buffer)}
    ELSE {result}

\* processLinesLoop with a blank line pushed without flushing the buffer first
RECURSIVE processLinesLoopNoFlush(_, _, _)
processLinesLoopNoFlush(lines, k, orderer) ==
    IF k = 0 THEN {<<<<>>, <<>>>>}
    ELSE { IF IsBlank(lines[k])
           THEN <<Append(rb[1], lines[k]), rb[2]>>
           ELSE <<rb[1], Append(rb[2], lines[k])>>
           : rb \in processLinesLoopNoFlush(lines, k - 1, orderer) }

\* the loop of processLines over the first k lines: the <<result, buffer>>
\* pairs it can have reached
RECURSIVE processLinesLoop(_, _, _)
processLinesLoop(lines, k, orderer) ==
    IF k = 0 THEN {<<<<>>, <<>>>>}
    ELSE UNION { IF IsBlank(lines[k])
                 THEN {<<Append(r, lines[k]), <<>>>> : r \in flush(rb[1], rb[2], orderer)}
                 ELSE {<<rb[1], Append(rb[2], lines[k])>>}
                 : rb \in processLinesLoop(lines, k - 1, orderer) }

\* processLines with the result end-trimmed on both paths
processLinesTrimBoth(cfg, orgText, orderer) ==
    LET lines == split(orgText)
        blanks == FilterBlank(lines, TRUE)
        nonBlanks == FilterBlank(lines, FALSE)
    IN  IF ~cfg.preserveBlankLines
        THEN {trimEnd(join(blanks \o ordered)) : ordered \in Order(orderer, nonBlanks)}
        ELSE UNION { {trimEnd(join(r)) : r \in flush(rb[1], rb[2], orderer)}
                     : rb \in processLinesLoop(lines, Len(lines), orderer) }

\* processLines(orgText, orderer) under the settings cfg: the texts it can return
processLines(cfg, orgText, orderer) ==
    LET lines == split(orgText)
        blanks == FilterBlank(lines, TRUE)
        nonBlanks == FilterBlank(lines, FALSE)
    IN  IF ~cfg.preserveBlankLines
        THEN {trimEnd(join(blanks \o ordered)) : ordered \in Order(orderer, nonBlanks)}
        ELSE UNION { {join(r) : r \in flush(rb[1], rb[2], orderer)}
                     : rb \in processLinesLoop(lines, Len(lines), orderer) }

\* the arrays processLines calls the orderer with: the non-blank lines, or,
\* with blank lines preserved, each flushed buffer
OrdererInputs(cfg, lines) ==
    IF ~cfg.preserveBlankLines THEN {FilterBlank(lines, FALSE)}
    ELSE {SubSeq(lines, r[1], r[2]) :
             r \in {x \in (1..Len(lines)) \X (1..Len(lines)) :
                       /\ x[1] <= x[2]
                       /\ \A k \in x[1]..x[2] : ~IsBlank(lines[k])
                       /\ (x[1] = 1 \/ IsBlank(lines[x[1] - 1]))
                       /\ (x[2] = Len(lines) \/ IsBlank(lines[x[2] + 1]))}}

\* whether lexisortLines reaches a.rendered.localeCompare(...): items.sort calls
\* its comparator when it has two items or more
lexisortLinesCompares(cfg, orgText) ==
    \E b \in OrdererInputs(cfg, split(orgText)) : Len(b) >= 2

lexisortLines(cfg, orgText) == processLines(cfg, orgText, "lexisort")

sortLines(cfg, orgText) == processLines(cfg, orgText, "sort")

reverseLines(cfg, orgText) == processLines(cfg, orgText, "reverse")

shuffleLines(cfg, orgText) == processLines(cfg, orgText, "shuffle")

(***************************************************************************)
(* Block commands: the tree of lines                                       *)
(*                                                                         *)
(* The TreeNode objects are held in an arena: node k (1..n) is the node    *)
(* created for line k, node 0 is the virtual root.  A tree is a record of  *)
(* the nodes' line, level and children (a sequence of node indices).       *)
(***************************************************************************)
\* the line of the root node (null): no line, "null" being no character
Null == <<"null">>

\* node.children = kids
SetChildren(tree, node, kids) ==
    [line |-> tree.line,
     level |-> tree.level,
     children |-> [i \in DOMAIN tree.children |-> IF i = node THEN kids ELSE tree.children[i]]]

\* getIndentation(line)
getIndentation(line) == LeadingWhitespace(line)

\* getLevel(line)
getLevel(line) ==
    LET m == HeadingMatch(line)
    IN  IF m > 0 THEN m ELSE 10 + getIndentation(line)

\* the pop loop with > for >=: a node of the new line's level stays on the stack
RECURSIVE PopWhileGreater(_, _, _)
PopWhileGreater(stack, levels, level) ==
    IF Len(stack) > 0 /\ levels[stack[Len(stack)]] > level
    THEN PopWhileGreater(SubSeq(stack, 1, Len(stack) - 1), levels, level)
    ELSE stack

\* the pop loop as an if: one node at most is popped
PopWhileOnce(stack, levels, level) ==
    IF Len(stack) > 0 /\ levels[stack[Len(stack)]] >= level
    THEN SubSeq(stack, 1, Len(stack) - 1)
    ELSE stack

\* while (stack[stack.length - 1].level >= level) stack.pop()
RECURSIVE PopWhile(_, _, _)
PopWhile(stack, levels, level) ==
    IF Len(stack) > 0 /\ levels[stack[Len(stack)]] >= level
    THEN PopWhile(SubSeq(stack, 1, Len(stack) - 1), levels, level)
    ELSE stack

\* the state of buildTree's loop after the first k lines: tree and stack
buildTreeLoop(lines, k) ==
    LET n == Len(lines)
        levels == [i \in 0..n |-> IF i = 0 THEN -1 ELSE getLevel(lines[i])]
        loop[j \in 0..n] ==
            IF j = 0
            THEN [children |-> [i \in 0..n |-> <<>>], stack |-> <<0>>]
            ELSE LET stack == PopWhile(loop[j - 1].stack, levels, levels[j])
                     top == stack[Len(stack)]
                     children == loop[j - 1].children
                 IN  [children |-> [i \in 0..n |->
                                       IF i = top THEN Append(children[i], j) ELSE children[i]],
                      stack |-> Append(stack, j)]
    IN  [line |-> [i \in 0..n |-> IF i = 0 THEN Null ELSE lines[i]],
         level |-> levels,
         children |-> loop[k].children,
         stack |-> loop[k].stack]

\* buildTree(lines): the tree (root is node 0)
buildTree(lines) ==
    LET b == buildTreeLoop(lines, Len(lines))
    IN  [line |-> b.line, level |-> b.level, children |-> b.children]

\* flattenTree pushing the node's line after the lines of its children
RECURSIVE flattenTreePostOrder(_, _)
flattenTreePostOrder(tree, node) ==
    LET kids == tree.children[node]
        rest[k \in 0..Len(kids)] ==
            IF k = 0 THEN <<>> ELSE rest[k - 1] \o flattenTreePostOrder(tree, kids[k])
    IN  rest[Len(kids)] \o (IF tree.line[node] # Null THEN <<tree.line[node]>> ELSE <<>>)

\* flattenTree(node)
RECURSIVE flattenTree(_, _)
flattenTree(tree, node) ==
    LET kids == tree.children[node]
        rest[k \in 0..Len(kids)] ==
            IF k = 0 THEN <<>> ELSE rest[k - 1] \o flattenTree(tree, kids[k])
    IN  (IF tree.line[node] # Null THEN <<tree.line[node]>> ELSE <<>>) \o rest[Len(kids)]

\* the items of sortTreeByWidth / lexiSortTree for the children of a node
ChildItems(tree, kids) ==
    [i \in 1..Len(kids) |->
        LET src == IF tree.line[kids[i]] = Null THEN <<>> ELSE tree.line[kids[i]]
        IN  [c |-> kids[i],
             rendered |-> getRenderCacheEntry(src).renderedText,
             width |-> getRenderCacheEntry(src).width,
             i |-> i]]

ItemNodes(items) == [k \in 1..Len(items) |-> items[k].c]

\* sortTreeByWidth(node)
RECURSIVE sortTreeByWidth(_, _)
sortTreeByWidth(tree, node) ==
    IF Len(tree.children[node]) = 0 THEN tree
    ELSE LET kids == ItemNodes(SortBy(ChildItems(tree, tree.children[node]), "width"))
             sorted == SetChildren(tree, node, kids)
             each[k \in 0..Len(kids)] ==
                 IF k = 0 THEN sorted ELSE sortTreeByWidth(each[k - 1], kids[k])
         IN  each[Len(kids)]

\* lexiSortTree(node)
RECURSIVE lexiSortTree(_, _)
lexiSortTree(tree, node) ==
    IF Len(tree.children[node]) = 0 THEN tree
    ELSE LET kids == ItemNodes(SortBy(ChildItems(tree, tree.children[node]), "rendered"))
             sorted == SetChildren(tree, node, kids)
             each[k \in 0..Len(kids)] ==
                 IF k = 0 THEN sorted ELSE lexiSortTree(each[k - 1], kids[k])
         IN  each[Len(kids)]

\* reverseTree that reverses the node's own children only
reverseTreeTopOnly(tree, node) == SetChildren(tree, node, Reverse(tree.children[node]))

\* reverseTree(node)
RECURSIVE reverseTree(_, _)
reverseTree(tree, node) ==
    LET kids == Reverse(tree.children[node])
        reversed == SetChildren(tree, node, kids)
        each[k \in 0..Len(kids)] ==
            IF k = 0 THEN reversed ELSE reverseTree(each[k - 1], kids[k])
    IN  each[Len(kids)]

\* shuffleTree(node): the trees it can leave
RECURSIVE shuffleTree(_, _)
shuffleTree(tree, node) ==
    UNION { LET shuffled == SetChildren(tree, node, kids)
                each[k \in 0..Len(kids)] ==
                    IF k = 0 THEN {shuffled}
                    ELSE UNION {shuffleTree(t, kids[k]) : t \in each[k - 1]}
            IN  each[Len(kids)]
            : kids \in shuffleArrayOutcomes(tree.children[node]) }

\* whether lexiSortTree reaches a.rendered.localeCompare(...): some node has two
\* children or more
lexisortBlocksCompares(orgText) ==
    LET tree == buildTree(split(orgText))
    IN  \E node \in DOMAIN tree.children : Len(tree.children[node]) >= 2

sortBlocks(orgText) ==
    {join(flattenTree(sortTreeByWidth(buildTree(split(orgText)), 0), 0))}

lexisortBlocks(orgText) ==
    {join(flattenTree(lexiSortTree(buildTree(split(orgText)), 0), 0))}

reverseBlocks(orgText) ==
    {join(flattenTree(reverseTree(buildTree(split(orgText)), 0), 0))}

shuffleBlocks(orgText) ==
    {join(flattenTree(t, 0)) : t \in shuffleTree(buildTree(split(orgText)), 0)}

(***************************************************************************)
(* Heading commands                                                        *)
(***************************************************************************)
\* minLevel of transformHeadings: the smallest heading level among the lines,
\* 0 standing for Infinity (no heading)
MinLevel(lines) ==
    LET hs == {HeadingMatch(lines[i]) : i \in 1..Len(lines)} \ {0}
    IN  IF hs = {} THEN 0 ELSE CHOOSE h \in hs : \A g \in hs : h <= g

\* HeadingBlocks without the leading block: the lines before the first
\* heading of the minimum level are left out
HeadingBlocksNoLeading(lines, minLevel) ==
    LET n == Len(lines)
        loop[k \in 0..n] ==
            IF k = 0 THEN [blocks |-> <<>>, cur |-> <<>>]
            ELSE LET prev == loop[k - 1]
                     line == lines[k]
                 IN  IF HeadingMatch(line) = minLevel
                     THEN [blocks |-> prev.blocks \o prev.cur,
                           cur |-> <<[heading |-> line, lines |-> <<line>>]>>]
                     ELSE IF prev.cur = <<>> THEN prev
                     ELSE [blocks |-> prev.blocks,
                           cur |-> <<[prev.cur[1] EXCEPT !.lines = Append(@, line)]>>]
    IN  loop[n].blocks \o loop[n].cur

\* the blocks transformHeadings cuts the lines into
HeadingBlocks(lines, minLevel) ==
    LET n == Len(lines)
        \* blocks pushed and the current block (cur) after the first k lines;
        \* cur is <<>> for null, else a one-element sequence
        loop[k \in 0..n] ==
            IF k = 0 THEN [blocks |-> <<>>, cur |-> <<>>]
            ELSE LET prev == loop[k - 1]
                     line == lines[k]
                 IN  IF HeadingMatch(line) = minLevel
                     THEN [blocks |-> prev.blocks \o prev.cur,
                           cur |-> <<[heading |-> line, lines |-> <<line>>]>>]
                     ELSE LET cur == IF prev.cur = <<>>
                                     THEN [heading |-> <<>>, lines |-> <<>>]
                                     ELSE prev.cur[1]
                          IN  [blocks |-> prev.blocks,
                               cur |-> <<[cur EXCEPT !.lines = Append(@, line)]>>]
    IN  loop[n].blocks \o loop[n].cur

\* the join of the blocks' headings alone
JoinBlocksHeadingsOnly(ordered) == join([k \in 1..Len(ordered) |-> ordered[k].heading])

\* ordered.map(b => b.lines.join("\n")).join("\n")
JoinBlocks(ordered) == join([k \in 1..Len(ordered) |-> join(ordered[k].lines)])

\* the items keyed by the first line of each block instead of its heading
BlockItemsByFirstLine(blocks) ==
    [i \in 1..Len(blocks) |->
        [b |-> blocks[i],
         rendered |-> getRenderCacheEntry(blocks[i].lines[1]).renderedText,
         width |-> getRenderCacheEntry(blocks[i].lines[1]).width,
         i |-> i]]

\* the items of lexisortHeadings / sortHeadings
BlockItems(blocks) ==
    [i \in 1..Len(blocks) |->
        [b |-> blocks[i],
         rendered |-> getRenderCacheEntry(blocks[i].heading).renderedText,
         width |-> getRenderCacheEntry(blocks[i].heading).width,
         i |-> i]]

ItemBlocks(items) == [k \in 1..Len(items) |-> items[k].b]

\* orderer(blocks) for the callback of the heading command named by orderer:
\* the set of arrangements it can return
OrderBlocks(orderer, blocks) ==
    CASE orderer = "lexisort" -> {ItemBlocks(SortBy(BlockItems(blocks), "rendered"))}
      [] orderer = "sort" -> {ItemBlocks(SortBy(BlockItems(blocks), "width"))}
      [] orderer = "reverse" -> {Reverse(blocks)}
      [] orderer = "shuffle" -> shuffleArrayOutcomes(blocks)

\* transformHeadings(orgText, orderer): the texts it can return
transformHeadings(orgText, orderer) ==
    LET lines == split(orgText)
        minLevel == MinLevel(lines)
    IN  IF minLevel = 0 THEN {orgText}
        ELSE {JoinBlocks(ordered) :
                 ordered \in OrderBlocks(orderer, HeadingBlocks(lines, minLevel))}

\* whether lexisortHeadings reaches a.rendered.localeCompare(...): there are two
\* blocks or more
lexisortHeadingsCompares(t) ==
    LET lines == split(t)
        minLevel == MinLevel(lines)
    IN  minLevel # 0 /\ Len(HeadingBlocks(lines, minLevel)) >= 2

lexisortHeadings(t) == transformHeadings(t, "lexisort")

sortHeadings(t) == transformHeadings(t, "sort")

reverseHeadings(t) == transformHeadings(t, "reverse")

shuffleHeadings(t) == transformHeadings(t, "shuffle")

(***************************************************************************)
(* The program: the selection, the settings, the twelve commands           *)
(***************************************************************************)
\* every text of at most MaxTextLen characters over Alphabet
RECURSIVE TextsOfLen(_)
TextsOfLen(n) ==
    IF n = 0 THEN {<<>>} ELSE {Append(t, c) : t \in TextsOfLen(n - 1), c \in Alphabet}

BoundedTexts == UNION {TextsOfLen(n) : n \in 0..MaxTextLen}

\* the texts of the documented scenarios
ScenarioBlocks ==
    <<"#", " ", "A", NL, "-", " ", "x", NL, "-", " ", "y", NL,
      "#", " ", "B", NL, "-", " ", "z">>
ScenarioLexical ==
    <<"b", "a", "n", "a", "n", "a", NL, NL, "a", "p", "p", "l", "e">>
ScenarioWidth == <<"h", "i", NL, "h", "e", "l", "l", "o", NL, "a">>
ScenarioNoHeading == <<"j", "u", "s", "t", " ", "t", "e", "x", "t">>

\* a selection of three runs of lines, separated by an empty line and by a
\* whitespace-only line
MixedRuns == <<"b", NL, "a", NL, NL, "a", "b", NL, " ", NL, "a">>

\* "####### b\n####### a": two lines that start with a run of seven "#"
SevenHashes ==
    <<"#", "#", "#", "#", "#", "#", "#", " ", "b", NL,
      "#", "#", "#", "#", "#", "#", "#", " ", "a">>

\* " aa\na\n aaa": an indented line, then an unindented line with an
\* indented line below it
UnevenSiblings == <<" ", "a", "a", NL, "a", NL, " ", "a", "a", "a">>

\* "x\n## b\n### c\n## a": a line before the first heading, and a deeper
\* heading inside the first of two sections
NestedHeadings ==
    <<"x", NL, "#", "#", " ", "b", NL, "#", "#", "#", " ", "c", NL, "#", "#", " ", "a">>

\* "xx\n# bb\n# a": a line before the first heading that is wider than, and
\* collates after, the headings below it
LeadingContent ==
    <<"x", "x", NL, "#", " ", "b", "b", NL, "#", " ", "a">>

Scenarios ==
    {ScenarioBlocks, ScenarioLexical, ScenarioWidth, ScenarioNoHeading, MixedRuns,
     SevenHashes, UnevenSiblings, NestedHeadings, LeadingContent}

Texts == BoundedTexts \cup Scenarios

\* the font specification of the nominal theme, the one the tables of
\* CharWidth and getHeadingScale describe
NominalFont == <<"f">>

\* this.headingScales = null
NoScales == <<>>

\* a slot of calls that holds no suspended command
Idle == [id |-> "idle"]

\* the number of sort commands that can be suspended at once
MaxCalls == 2

\* the number of sort commands the user starts in a behaviour
MaxCommands == 2

\* the plugin object after construction and onload: an empty render cache, no
\* heading scales, no command running
CacheAtLoad ==
    /\ fontSpec = NominalFont
    /\ renderCache = {}
    /\ headingScales = NoScales
    /\ calls = [s \in 1..MaxCalls |-> Idle]
    /\ history = [event |-> "load", measured |-> FALSE, hit |-> FALSE,
                  sameText |-> TRUE, fontChanged |-> FALSE, started |-> 0]

\* the value of lastLocale before the first call of localeCompare
NoLocale == <<"none">>

\* the settings: DEFAULT_SETTINGS overlaid with the saved data
SettingsOf(preserve, locale) == [preserveBlankLines |-> preserve, myLocale |-> locale]

\* the plugin loaded with a locale chosen in the settings, in a host that has a
\* canvas
Init ==
    /\ selection \in Texts
    /\ settings \in {SettingsOf(p, <<"e", "n">>) : p \in BOOLEAN}
    /\ canvas = TRUE
    /\ language = <<"d", "e">>
    /\ lastCmd = "none"
    /\ lastIn = <<>>
    /\ lastOut = <<>>
    /\ lastSettings = settings
    /\ lastLocale = NoLocale
    /\ rejected = "none"
    /\ CacheAtLoad

\* editorCallback of a command, its promise fulfilled:
\* ed.replaceSelection(command(ed.getSelection())).
\* The editor puts the cursor after the inserted text: nothing is selected then.
Replace(id, outcomes) ==
    \E out \in outcomes :
        /\ selection' = <<>>
        /\ lastCmd' = id
        /\ lastIn' = selection
        /\ lastOut' = out
        /\ lastSettings' = settings
        /\ rejected' = "none"
        /\ UNCHANGED <<settings, canvas, language, cacheVars>>

\* editorCallback of a command, its promise rejected: runAsync hands the error
\* to console.error, ed.replaceSelection is not reached
Reject(id) ==
    /\ rejected' = id
    /\ UNCHANGED <<selection, settings, canvas, language, lastCmd, lastIn, lastOut,
                   lastSettings, cacheVars>>

\* a command that does not compare texts
Run(id, outcomes) == Replace(id, outcomes) /\ UNCHANGED lastLocale

\* a lexisort command: when its sort compares two items, the comparator calls
\* localeCompare with getLocale(), which may throw
RunLexisort(id, compares, outcomes) ==
    IF compares
    THEN /\ lastLocale' = getLocale(settings)
         /\ IF localeCompareThrows(getLocale(settings))
            THEN Reject(id)
            ELSE Replace(id, outcomes)
    ELSE Replace(id, outcomes) /\ UNCHANGED lastLocale

LexisortLines ==
    RunLexisort("lexisort-lines", lexisortLinesCompares(settings, selection),
                lexisortLines(settings, selection))
ReverseLines == Run("reverse-lines", reverseLines(settings, selection))
SortLines == Run("sort-lines", sortLines(settings, selection))
ShuffleLines == Run("shuffle-lines", shuffleLines(settings, selection))
LexisortBlocks ==
    RunLexisort("lexisort-blocks", lexisortBlocksCompares(selection),
                lexisortBlocks(selection))
ReverseBlocks == Run("reverse-blocks", reverseBlocks(selection))
SortBlocks == Run("sort-blocks", sortBlocks(selection))
ShuffleBlocks == Run("shuffle-blocks", shuffleBlocks(selection))
LexisortHeadings ==
    RunLexisort("lexisort-headings", lexisortHeadingsCompares(selection),
                lexisortHeadings(selection))
SortHeadings == Run("sort-headings", sortHeadings(selection))
ShuffleHeadings == Run("shuffle-headings", shuffleHeadings(selection))
ReverseHeadings == Run("reverse-headings", reverseHeadings(selection))

\* the settings tab's toggle "Preserve Blanks"
SetPreserveBlankLines ==
    /\ settings' = [settings EXCEPT !.preserveBlankLines = ~@]
    /\ UNCHANGED <<selection, canvas, language, lastCmd, lastIn, lastOut, lastSettings,
                   lastLocale, rejected, cacheVars>>

Next ==
    \/ LexisortLines
    \/ ReverseLines
    \/ SortLines
    \/ ShuffleLines
    \/ LexisortBlocks
    \/ ReverseBlocks
    \/ SortBlocks
    \/ ShuffleBlocks
    \/ LexisortHeadings
    \/ SortHeadings
    \/ ShuffleHeadings
    \/ ReverseHeadings
    \/ SetPreserveBlankLines

Spec == Init /\ [][Next]_vars

(***************************************************************************)
(* The program in any host and under any saved settings, on short          *)
(* selections: the locale setting, navigator.language and the canvas vary  *)
(***************************************************************************)
MaxEnvTextLen == 2

\* the values of myLocale a saved data file can hold: none, a supported tag, a
\* malformed tag
SavedLocales == {<<>>, <<"e", "n">>, <<"e">>}

\* the entries of the "Text Locale" dropdown that are chosen
DropdownValues == {"default", "en", "custom"}

\* the tag a dropdown entry stands for
DropdownTag(value) ==
    CASE value = "en" -> <<"e", "n">>
      [] value = "custom" -> <<"c", "u", "s", "t", "o", "m">>
      [] OTHER -> <<>>

\* what is typed into the "Custom Locale" field
TypedLocales == {<<>>, <<" ", "e", "s">>, <<"e">>}

EnvTexts ==
    UNION {TextsOfLen(n) : n \in 0..MaxEnvTextLen} \cup
    {ScenarioLexical, ScenarioWidth, SevenHashes}

EnvInit ==
    /\ selection \in EnvTexts
    /\ settings \in {SettingsOf(p, l) : p \in BOOLEAN, l \in SavedLocales}
    /\ canvas \in BOOLEAN
    /\ language \in {<<>>, <<"d", "e">>}
    /\ lastCmd = "none"
    /\ lastIn = <<>>
    /\ lastOut = <<>>
    /\ lastSettings = settings
    /\ lastLocale = NoLocale
    /\ rejected = "none"
    /\ CacheAtLoad

\* onChange of the "Text Locale" dropdown
SetLocaleDropdown ==
    \E value \in DropdownValues :
        /\ settings' = [settings EXCEPT !.myLocale =
                           IF value = "default" THEN <<>> ELSE DropdownTag(value)]
        /\ UNCHANGED <<selection, canvas, language, lastCmd, lastIn, lastOut,
                       lastSettings, lastLocale, rejected, cacheVars>>

\* onChange of the "Custom Locale" text field, which display() shows when
\* myLocale is neither empty nor one of the quick locales
SetCustomLocale ==
    /\ trim(settings.myLocale) \notin (SupportedLocales \cup {<<>>})
    /\ \E typed \in TypedLocales :
          LET v == trim(typed)
          IN  settings' = [settings EXCEPT !.myLocale = IF isValidLocale(v) THEN v ELSE <<>>]
    /\ UNCHANGED <<selection, canvas, language, lastCmd, lastIn, lastOut,
                   lastSettings, lastLocale, rejected, cacheVars>>

EnvNext ==
    \/ Next
    \/ SetLocaleDropdown
    \/ SetCustomLocale

EnvSpec == EnvInit /\ [][EnvNext]_vars

(***************************************************************************)
(* The render cache: sort-lines suspended at its measurements, the theme   *)
(* changing, the user changing the selection and the settings meanwhile    *)
(***************************************************************************)
\* the strings getFontSpec() can return: the nominal theme's and another
\* theme's, whose font name ends in "||"
FontSpecs == {NominalFont, <<"f", "|", "|">>}

\* the selections of this specification: "x", "||x", "# x\nx"
CacheTexts == {<<"x">>, <<"|", "|", "x">>, <<"#", " ", "x", NL, "x">>}

\* the key with the line left out
cacheKeyFontOnly(font, src) == font

\* const key = `${fontSpec}||${src}`
cacheKey(font, src) == font \o <<"|", "|">> \o src

\* ctx.measureText(s).width with ctx.font = font, in 1/100 px
measureTextIn(font, s) == IF font = NominalFont THEN measureText(s) ELSE 600 * Len(s)

\* the table getHeadingScale builds when this.headingScales is null, under the
\* theme whose font specification is font (percent)
computeHeadingScales(font) ==
    [lvl \in 1..6 |-> IF font = NominalFont THEN getHeadingScale(lvl) ELSE 100 + 20 * (6 - lvl)]

\* the entry getRenderCacheEntry computes after the render for the line src:
\* font is the fontSpec it read before the await, scales the heading scales
\* at hand when it resumes
measureEntry(font, scales, src) ==
    LET cleanSrc == trimStart(src)
        shown    == trim(RenderMarkdown(cleanSrc))
        rendered == IF shown # <<>> THEN shown ELSE cleanSrc
        level    == SrcHeadingLevel(src)
    IN  [renderedText |-> rendered,
         width |-> IF ~canvas THEN Len(rendered) * 10
                   ELSE IF level > 0
                   THEN measureTextIn(font, rendered) * scales[level]
                   ELSE measureTextIn(font, rendered) * 100]

\* an entry as the cache holds it: key and value of the Map, with the font
\* specification and the line it was computed for, and whether the cache was
\* invalidated while its measurement was suspended
CacheEntry(font, scales, src, stale) ==
    [key |-> cacheKey(font, src),
     renderedText |-> measureEntry(font, scales, src).renderedText,
     width |-> measureEntry(font, scales, src).width,
     font |-> font,
     src |-> src,
     stale |-> stale]

\* the place of a measurement that has not resumed yet
Pending == [key |-> <<>>, renderedText |-> <<>>, width |-> -1,
            font |-> <<>>, src |-> <<>>, stale |-> FALSE]

\* this.renderCache.get(key): the entries under the key, one at most
cacheGet(key) == {e \in renderCache : e.key = key}

\* this.renderCache.set(key, entry)
cacheSet(entry) == {e \in renderCache : e.key # entry.key} \cup {entry}

\* the first part of getRenderCacheEntry(src), up to the await: the cached
\* entry, or Pending
lookupEntry(font, src) ==
    IF cacheGet(cacheKey(font, src)) # {}
    THEN CHOOSE e \in cacheGet(cacheKey(font, src)) : TRUE
    ELSE Pending

\* sortLines with preserveBlankLines off, given the entries of the non-blank
\* lines: items sorted by width, blanks first, trimEnd
sortLinesFrom(orgText, entries) ==
    LET lines == split(orgText)
        blanks == FilterBlank(lines, TRUE)
        nonBlanks == FilterBlank(lines, FALSE)
        items == [i \in 1..Len(nonBlanks) |->
                     [line |-> nonBlanks[i],
                      rendered |-> entries[i].renderedText,
                      width |-> entries[i].width,
                      i |-> i]]
    IN  trimEnd(join(blanks \o ItemLines(SortBy(items, "width"))))

\* the suspended commands, each told that an event of the kind took effect
Noted(kind) ==
    [s \in 1..MaxCalls |->
        IF calls[s] = Idle THEN Idle
        ELSE [calls[s] EXCEPT !.during = @ \cup {kind}]]

\* the plugin loaded with blank lines not preserved; the host has a canvas and
\* shows one of the themes
CacheInit ==
    /\ selection \in CacheTexts
    /\ settings = SettingsOf(FALSE, <<"e", "n">>)
    /\ canvas = TRUE
    /\ language = <<"d", "e">>
    /\ lastCmd = "none"
    /\ lastIn = <<>>
    /\ lastOut = <<>>
    /\ lastSettings = settings
    /\ lastLocale = NoLocale
    /\ rejected = "none"
    /\ fontSpec \in FontSpecs
    /\ renderCache = {}
    /\ headingScales = NoScales
    /\ calls = [s \in 1..MaxCalls |-> Idle]
    /\ history = [event |-> "load", measured |-> FALSE, hit |-> FALSE,
                  sameText |-> TRUE, fontChanged |-> FALSE, started |-> 0]

\* ed.replaceSelection(out) at the end of the sort-lines command call: the
\* text selected now is replaced by the arrangement of the text read at the start
FinishSortLines(call, entries, others, hit, started) ==
    /\ selection' = <<>>
    /\ lastCmd' = call.id
    /\ lastIn' = call.input
    /\ lastOut' = sortLinesFrom(call.input, entries)
    /\ lastSettings' = settings
    /\ rejected' = "none"
    /\ calls' = others
    /\ history' = [history EXCEPT !.event = "replace",
                                  !.measured = (call.lines # <<>>), !.hit = hit,
                                  !.sameText = (selection = call.input),
                                  !.started = started]

\* the sort-lines command up to its first suspension: ed.getSelection(), then
\* processLines calls getRenderCacheEntry for every non-blank line; each call
\* reads the font specification and looks its key up.  With every line found
\* in the cache nothing suspends the command and it replaces the selection.
StartSortLines ==
    \E slot \in 1..MaxCalls :
        /\ history.started < MaxCommands
        /\ calls[slot] = Idle
        /\ \A s \in 1..(slot - 1) : calls[s] # Idle
        /\ LET font == trim(fontSpec)
               lines == FilterBlank(split(selection), FALSE)
               entries == [i \in 1..Len(lines) |-> lookupEntry(font, lines[i])]
               call == [id |-> "sort-lines", input |-> selection, fontSpec |-> font,
                        lines |-> lines, entries |-> entries, during |-> {}]
               hit == \E i \in 1..Len(lines) : entries[i] # Pending
           IN  IF \A i \in 1..Len(lines) : entries[i] # Pending
               THEN FinishSortLines(call, entries, Noted("command"), hit,
                                    history.started + 1)
               ELSE /\ calls' = [Noted("command") EXCEPT ![slot] = call]
                    /\ history' = [history EXCEPT !.event = "other", !.measured = hit,
                                                  !.hit = hit, !.started = @ + 1]
                    /\ UNCHANGED <<selection, lastCmd, lastIn, lastOut, lastSettings,
                                   rejected>>
        /\ UNCHANGED <<settings, canvas, language, lastLocale, fontSpec, renderCache,
                       headingScales>>

\* getRenderCacheEntry resumes after await MarkdownRenderer.render for line i
\* of a suspended command: it measures with the font specification it read
\* before the await, scales a heading by this.headingScales (rebuilt under the
\* theme shown now if null), and stores the entry under the key it computed
\* before the await.  The last measurement lets the command finish.
ResumeRender ==
    \E slot \in 1..MaxCalls :
        /\ calls[slot] # Idle
        /\ \E i \in 1..Len(calls[slot].lines) :
              /\ calls[slot].entries[i] = Pending
              /\ LET call == calls[slot]
                     src == call.lines[i]
                     scaled == canvas /\ SrcHeadingLevel(src) > 0
                     scales == IF headingScales = NoScales
                               THEN computeHeadingScales(fontSpec)
                               ELSE headingScales
                     entry == CacheEntry(call.fontSpec, scales, src,
                                         "invalidation" \in call.during)
                     entries == [call.entries EXCEPT ![i] = entry]
                 IN  /\ headingScales' = IF scaled THEN scales ELSE headingScales
                     /\ renderCache' = cacheSet(entry)
                     /\ IF \A k \in 1..Len(entries) : entries[k] # Pending
                        THEN FinishSortLines(call, entries,
                                 [s \in 1..MaxCalls |->
                                     IF s = slot THEN Idle ELSE Noted("command")[s]],
                                 FALSE, history.started)
                        ELSE /\ calls' = [calls EXCEPT ![slot].entries = entries]
                             /\ history' = [history EXCEPT !.event = "other",
                                                           !.measured = TRUE,
                                                           !.hit = FALSE]
                             /\ UNCHANGED <<selection, lastCmd, lastIn, lastOut,
                                            lastSettings, rejected>>
        /\ UNCHANGED <<settings, canvas, language, lastLocale, fontSpec>>

\* the handler of "css-change": this.renderCache.clear(); this.headingScales = null
CssChange ==
    /\ renderCache' = {}
    /\ headingScales' = NoScales
    /\ calls' = Noted("invalidation")
    /\ history' = [history EXCEPT !.event = "css-change", !.measured = FALSE,
                                  !.hit = FALSE]
    /\ UNCHANGED <<selection, settings, canvas, language, lastCmd, lastIn, lastOut,
                   lastSettings, lastLocale, rejected, fontSpec>>

\* the user picks another theme or font: the computed style changes and the
\* host fires "css-change" at once
ChangeFont ==
    \E font \in FontSpecs \ {fontSpec} :
        /\ fontSpec' = font
        /\ renderCache' = {}
        /\ headingScales' = NoScales
        /\ calls' = Noted("invalidation")
        /\ history' = [history EXCEPT !.event = "css-change", !.measured = FALSE,
                                      !.hit = FALSE, !.fontChanged = TRUE]
        /\ UNCHANGED <<selection, settings, canvas, language, lastCmd, lastIn, lastOut,
                       lastSettings, lastLocale, rejected>>

\* the user selects another text in the editor
Select ==
    \E text \in CacheTexts \ {selection} :
        /\ selection' = text
        /\ calls' = Noted("selection")
        /\ history' = [history EXCEPT !.event = "other", !.measured = FALSE,
                                      !.hit = FALSE]
        /\ UNCHANGED <<settings, canvas, language, lastCmd, lastIn, lastOut,
                       lastSettings, lastLocale, rejected, fontSpec, renderCache,
                       headingScales>>

\* the "Text Locale" dropdown of the settings tab: myLocale is set and
\* saveSettings() is called, which writes the data file
SaveSettings ==
    \E value \in DropdownValues \ {"custom"} :
        /\ settings' = [settings EXCEPT !.myLocale =
                           IF value = "default" THEN <<>> ELSE DropdownTag(value)]
        /\ settings' # settings
        /\ history' = [history EXCEPT !.event = "save-settings", !.measured = FALSE,
                                      !.hit = FALSE]
        /\ UNCHANGED <<selection, canvas, language, lastCmd, lastIn, lastOut,
                       lastSettings, lastLocale, rejected, fontSpec, renderCache,
                       headingScales, calls>>

CacheNext ==
    \/ StartSortLines
    \/ ResumeRender
    \/ CssChange
    \/ ChangeFont
    \/ Select
    \/ SaveSettings

CacheSpec == CacheInit /\ [][CacheNext]_vars

(***************************************************************************)
(* Properties                                                              *)
(***************************************************************************)
LineCmds == {"lexisort-lines", "sort-lines", "shuffle-lines", "reverse-lines"}
BlockCmds == {"lexisort-blocks", "sort-blocks", "shuffle-blocks", "reverse-blocks"}
HeadingCmds == {"lexisort-headings", "sort-headings", "shuffle-headings", "reverse-headings"}

\* the orderer callback a line command hands to processLines
OrdererOf(cmd) ==
    CASE cmd = "lexisort-lines" -> "lexisort"
      [] cmd = "sort-lines" -> "sort"
      [] cmd = "shuffle-lines" -> "shuffle"
      [] cmd = "reverse-lines" -> "reverse"

\* the multiset of the elements of a sequence
BagOfSeq(s) ==
    [x \in {s[i] : i \in 1..Len(s)} |-> Cardinality({i \in 1..Len(s) : s[i] = x})]

\* the node whose children hold node k
ParentOf(tree, k) ==
    CHOOSE p \in DOMAIN tree.children :
        \E i \in 1..Len(tree.children[p]) : tree.children[p][i] = k

\* the multiset of <<line, parent line>> pairs of a text under buildTree
ParentPairs(text) ==
    LET lines == split(text)
        tree == buildTree(lines)
    IN  BagOfSeq([k \in 1..Len(lines) |-> <<lines[k], tree.line[ParentOf(tree, k)]>>])

InLines == split(lastIn)
OutLines == split(lastOut)

\* lines i and j of the input belong to the same run of the last line command
SameRun(i, j) ==
    \/ ~lastSettings.preserveBlankLines
    \/ \A k \in 1..Len(InLines) :
          ((i <= k /\ k <= j) \/ (j <= k /\ k <= i)) => ~IsBlank(InLines[k])

\* some blank line of the input lies strictly between two non-blank lines
BlankBetweenRuns ==
    \E i, k, j \in 1..Len(InLines) :
        /\ i < k /\ k < j
        /\ ~IsBlank(InLines[i]) /\ IsBlank(InLines[k]) /\ ~IsBlank(InLines[j])

\* C1: a block command leaves the multiset of (line, parent line) pairs of the
\* text unchanged, the parent being the one buildTree gives: no line ends up
\* under a different parent.
C1_ParentPairsPreserved ==
    lastCmd \in BlockCmds => ParentPairs(lastOut) = ParentPairs(lastIn)

\* C2: reverse-blocks applied to its own output gives back the input.
C2_ReverseBlocksInvolution ==
    lastCmd = "reverse-blocks" => reverseBlocks(lastOut) = {lastIn}

NoBlankNoTrailing(text) ==
    LET lines == split(text)
    IN  /\ \A i \in 1..Len(lines) : ~IsBlank(lines[i])
        /\ trimEnd(lines[1]) = lines[1]
        /\ trimEnd(lines[Len(lines)]) = lines[Len(lines)]

C4_ReverseHeadingsInvolution ==
    lastCmd = "reverse-headings" => reverseHeadings(lastOut) = {lastIn}

\* "# B\n- z\n# A\n- x\n- y"
SectionsReversedChildrenKept ==
    <<"#", " ", "B", NL, "-", " ", "z", NL, "#", " ", "A", NL,
      "-", " ", "x", NL, "-", " ", "y">>

\* "# B\n- z\n# A\n- y\n- x"
SectionsReversedChildrenReversed ==
    <<"#", " ", "B", NL, "-", " ", "z", NL, "#", " ", "A", NL,
      "-", " ", "y", NL, "-", " ", "x">>

\* C5 as stated: reverse-blocks on "# A\n- x\n- y\n# B\n- z" returns
\* "# B\n- z\n# A\n- x\n- y" (sections reversed, children in their original order).
C5_BlockReverseScenario ==
    (lastCmd = "reverse-blocks" /\ lastIn = ScenarioBlocks)
    => lastOut = SectionsReversedChildrenKept

\* C5 as amended: reverse-blocks reverses the children of every node, the
\* children of each section included: on "# A\n- x\n- y\n# B\n- z" it returns
\* "# B\n- z\n# A\n- y\n- x".
C5_BlockReverseScenarioAmended ==
    (lastCmd = "reverse-blocks" /\ lastIn = ScenarioBlocks)
    => lastOut = SectionsReversedChildrenReversed

\* reverse-blocks ran on the scenario's text
C5_Witness == lastCmd = "reverse-blocks" /\ lastIn = ScenarioBlocks

\* a heading line: a run of one to six "#", after any leading whitespace,
\* followed by whitespace
IsHeadingLine(line) == HeadingMatch(line) \in 1..6

\* C6: on a text without a heading line, each of the four heading commands
\* returns the text unchanged, character for character.
C6_HeadingNoOp ==
    (lastCmd \in HeadingCmds /\ \A i \in 1..Len(InLines) : ~IsHeadingLine(InLines[i]))
    => lastOut = lastIn

\* C7: with preserveBlankLines false, a line command returns exactly the blank
\* lines of the input, in their order and unchanged, followed by the orderer's
\* arrangement of the non-blank lines, each unchanged, joined by newlines.
C7_BlanksThenOrdered ==
    (lastCmd \in LineCmds /\ ~lastSettings.preserveBlankLines)
    => \E ordered \in Order(OrdererOf(lastCmd), FilterBlank(InLines, FALSE)) :
           lastOut = join(FilterBlank(InLines, TRUE) \o ordered)

\* the maximal runs of non-blank lines of a sequence of lines, as <<first, last>>
Runs(lines) ==
    {r \in (1..Len(lines)) \X (1..Len(lines)) :
        /\ r[1] <= r[2]
        /\ \A k \in r[1]..r[2] : ~IsBlank(lines[k])
        /\ (r[1] = 1 \/ IsBlank(lines[r[1] - 1]))
        /\ (r[2] = Len(lines) \/ IsBlank(lines[r[2] + 1]))}

\* C8: with preserveBlankLines true, a line command returns as many lines as
\* it was given, every blank line at its index and unchanged, and the lines of
\* each maximal run of non-blank lines permuted within the run's indices.
C8_BlanksFixedRunsPermuted ==
    (lastCmd \in LineCmds /\ lastSettings.preserveBlankLines)
    => /\ Len(OutLines) = Len(InLines)
       /\ \A i \in 1..Len(InLines) : IsBlank(InLines[i]) => OutLines[i] = InLines[i]
       /\ \A r \in Runs(InLines) :
             BagOfSeq(SubSeq(OutLines, r[1], r[2])) = BagOfSeq(SubSeq(InLines, r[1], r[2]))

\* a line command ran with blanks preserved on a text with a blank line between
\* two runs, and moved lines
C8_Witness ==
    /\ lastCmd \in LineCmds
    /\ lastCmd # "reverse-lines"
    /\ lastSettings.preserveBlankLines
    /\ BlankBetweenRuns
    /\ lastOut # lastIn

\* C9: shuffle-lines returns a text whose lines are a permutation of the
\* input's lines, for either value of preserveBlankLines.
C9_ShuffleLinesPermutation ==
    lastCmd = "shuffle-lines" => BagOfSeq(OutLines) = BagOfSeq(InLines)

\* C10: after sort-lines, of two non-blank lines of the same run, the one of
\* smaller measured width appears before the other in the output.
C10_NarrowerLineFirst ==
    lastCmd = "sort-lines"
    => \A i, j \in 1..Len(InLines) :
          (/\ ~IsBlank(InLines[i]) /\ ~IsBlank(InLines[j])
           /\ SameRun(i, j)
           /\ getRenderCacheEntry(InLines[i]).width < getRenderCacheEntry(InLines[j]).width)
          => \E p, q \in 1..Len(OutLines) :
                p < q /\ OutLines[p] = InLines[i] /\ OutLines[q] = InLines[j]

\* the arrays of items the last command sorted, each with the key of the sort
SortedArrays ==
    LET tree == buildTree(InLines)
        minLevel == MinLevel(InLines)
        blocks == IF minLevel = 0 THEN {} ELSE {BlockItems(HeadingBlocks(InLines, minLevel))}
    IN  CASE lastCmd = "sort-lines" ->
               {<<LineItems(b), "width">> : b \in OrdererInputs(lastSettings, InLines)}
          [] lastCmd = "lexisort-lines" ->
               {<<LineItems(b), "rendered">> : b \in OrdererInputs(lastSettings, InLines)}
          [] lastCmd = "sort-blocks" ->
               {<<ChildItems(tree, tree.children[n]), "width">> : n \in DOMAIN tree.children}
          [] lastCmd = "lexisort-blocks" ->
               {<<ChildItems(tree, tree.children[n]), "rendered">> : n \in DOMAIN tree.children}
          [] lastCmd = "sort-headings" -> {<<b, "width">> : b \in blocks}
          [] lastCmd = "lexisort-headings" -> {<<b, "rendered">> : b \in blocks}
          [] OTHER -> {}

\* the sort keys of two items compare equal
KeysEqual(key, a, b) ==
    IF key = "width" THEN a.width = b.width
    ELSE localeCompare(a.rendered, b.rendered) = 0

\* C11: every sort of the width and lexical commands (the lines of a run, the
\* children of a tree node, the heading blocks) is stable: two items whose keys
\* compare equal leave the sort in the order they entered it.
C11_SortsStable ==
    \A arr \in SortedArrays :
        LET sorted == SortBy(arr[1], arr[2])
        IN  \A p, q \in 1..Len(sorted) :
               (p < q /\ KeysEqual(arr[2], sorted[p], sorted[q]))
               => sorted[p].i < sorted[q].i

\* a sort command sorted an array in which two items of equal key follow an
\* item of greater key, so that the sort moved them
C11_Witness ==
    \E arr \in SortedArrays :
        \E g, a, b \in 1..Len(arr[1]) :
            /\ g < a /\ a < b
            /\ KeysEqual(arr[2], arr[1][a], arr[1][b])
            /\ ~KeysEqual(arr[2], arr[1][g], arr[1][a])
            /\ Before(arr[2], arr[1][a], arr[1][g])

\* C12: sort-lines and lexisort-lines are idempotent, for either value of
\* preserveBlankLines: the same sort applied to its own output returns that
\* output unchanged.
C12_LineSortsIdempotent ==
    /\ lastCmd = "sort-lines" => sortLines(lastSettings, lastOut) = {lastOut}
    /\ lastCmd = "lexisort-lines" => lexisortLines(lastSettings, lastOut) = {lastOut}

\* the same, with preserveBlankLines true only
C12_PreservedIdempotent ==
    lastSettings.preserveBlankLines => C12_LineSortsIdempotent

\* C13: sort-blocks and lexisort-blocks are idempotent: the same block sort
\* applied to its own output returns that output unchanged.
C13_BlockSortsIdempotent ==
    /\ lastCmd = "sort-blocks" => sortBlocks(lastOut) = {lastOut}
    /\ lastCmd = "lexisort-blocks" => lexisortBlocks(lastOut) = {lastOut}

\* C14: whatever myLocale holds (nothing, a supported tag, an invalid or
\* unsupported tag), the locale handed to localeCompare is the valid configured
\* tag or the system default (navigator.language or "en"), never an empty or
\* invalid tag, and no lexical sort is rejected because of the locale.
C14_LocaleNeverInvalid ==
    /\ lastLocale # NoLocale => lastLocale \in SupportedLocales \cup {SystemLocale}
    /\ rejected = "none"

WidthCmds == {"sort-lines", "sort-blocks", "sort-headings"}

\* C15: without a canvas 2D context, a width command that has a non-blank line
\* to measure is aborted with an error: it does not replace the selection with
\* a text arranged by guessed widths.
C15_NoCanvasAborts ==
    ~canvas =>
        ~(/\ lastCmd \in WidthCmds
          /\ \E arr \in SortedArrays :
                \E k \in 1..Len(arr[1]) : arr[1][k].rendered # <<>>)

\* the first lines of the heading blocks of a text with a heading line: the
\* heading lines of the shallowest level present, and line 1
BlockStarts(lines) ==
    LET hs == {HeadingMatch(lines[i]) : i \in 1..Len(lines)} \cap 1..6
        shallowest == CHOOSE h \in hs : \A g \in hs : h <= g
    IN  {1} \cup {i \in 1..Len(lines) : HeadingMatch(lines[i]) = shallowest}

\* the heading blocks of the text, in order: each runs from its first line to
\* the line before the next block's first line
BlocksOf(lines) ==
    LET starts == BlockStarts(lines)
        nth[k \in 1..Cardinality(starts)] ==
            CHOOSE i \in starts : Cardinality({j \in starts : j < i}) = k - 1
    IN  [k \in 1..Cardinality(starts) |->
            SubSeq(lines, nth[k],
                   IF k = Cardinality(starts) THEN Len(lines) ELSE nth[k + 1] - 1)]

\* the lines of the blocks taken in the order f
Concatenated(blocks, f) ==
    LET cat[k \in 0..Len(blocks)] ==
            IF k = 0 THEN <<>> ELSE cat[k - 1] \o blocks[f[k]]
    IN  cat[Len(blocks)]

\* the orders of n blocks
Orders(n) == {f \in [1..n -> 1..n] : \A i, j \in 1..n : f[i] = f[j] => i = j}

\* C16: a heading command on a text with a heading line returns the heading
\* blocks of the text in some order: every block once, its lines together and
\* in their original order, the deeper headings staying in their block.
C16_BlocksConcatenated ==
    (lastCmd \in HeadingCmds /\ \E i \in 1..Len(InLines) : IsHeadingLine(InLines[i]))
    => \E f \in Orders(Len(BlocksOf(InLines))) :
           OutLines = Concatenated(BlocksOf(InLines), f)

\* a heading command ran on a text with a deeper heading inside a block, and
\* moved the lines before the first heading behind a heading block
C16_Witness ==
    /\ lastCmd \in HeadingCmds
    /\ \E i \in 1..Len(InLines) : IsHeadingLine(InLines[i])
    /\ \E i \in 1..Len(InLines) : IsHeadingLine(InLines[i]) /\ i \notin BlockStarts(InLines)
    /\ ~IsHeadingLine(InLines[1])
    /\ OutLines[1] # InLines[1]

\* C17: getLevel gives every heading line a level in 1..6 and every other line
\* 10 plus the number of its leading whitespace characters, so that a heading
\* line always has a lower level than a line that is not a heading.
C17_LevelsOfLines ==
    lastCmd \in BlockCmds =>
        /\ \A i \in 1..Len(InLines) :
              IF IsHeadingLine(InLines[i])
              THEN getLevel(InLines[i]) \in 1..6
              ELSE getLevel(InLines[i]) = 10 + LeadingWhitespace(InLines[i])
        /\ \A i, j \in 1..Len(InLines) :
              (IsHeadingLine(InLines[i]) /\ ~IsHeadingLine(InLines[j]))
              => getLevel(InLines[i]) < getLevel(InLines[j])

\* the tree buildTree makes of the last command's input
BuiltTree == buildTree(InLines)

\* the trees the last block command can have left after its reorder
ReorderedTrees ==
    CASE lastCmd = "sort-blocks" -> {sortTreeByWidth(BuiltTree, 0)}
      [] lastCmd = "lexisort-blocks" -> {lexiSortTree(BuiltTree, 0)}
      [] lastCmd = "reverse-blocks" -> {reverseTree(BuiltTree, 0)}
      [] lastCmd = "shuffle-blocks" -> shuffleTree(BuiltTree, 0)
      [] OTHER -> {}

\* C18: in the tree buildTree returns, and in the tree a reorder leaves, every
\* child has a level strictly greater than its parent's, the root having -1.
C18_ChildrenDeeper ==
    \A t \in {BuiltTree} \cup ReorderedTrees :
        \A n \in DOMAIN t.children :
            \A k \in 1..Len(t.children[n]) : t.level[t.children[n][k]] > t.level[n]

\* a block command reordered a tree in which a line has children of its own
\* and some line follows a line of its own level
C18_Witness ==
    /\ lastCmd \in BlockCmds
    /\ \E n \in DOMAIN BuiltTree.children : n # 0 /\ Len(BuiltTree.children[n]) >= 2
    /\ \E i \in 2..Len(InLines) : getLevel(InLines[i]) = getLevel(InLines[i - 1])
    /\ lastOut # lastIn

\* C19: a tree reorder only permutes the children list of each node: every
\* node keeps the same children, none dropped or duplicated, and every node
\* keeps its line and its level.
C19_ChildrenPermuted ==
    \A t \in ReorderedTrees :
        /\ t.line = BuiltTree.line
        /\ t.level = BuiltTree.level
        /\ \A n \in DOMAIN BuiltTree.children :
              /\ Len(t.children[n]) = Len(BuiltTree.children[n])
              /\ BagOfSeq(t.children[n]) = BagOfSeq(BuiltTree.children[n])

\* a block command changed the order of the root's children and the order of
\* the children of another node
C19_Witness ==
    \E t \in ReorderedTrees :
        /\ t.children[0] # BuiltTree.children[0]
        /\ \E n \in DOMAIN t.children : n # 0 /\ t.children[n] # BuiltTree.children[n]

\* the arrays the last shuffle command handed to shuffleArray
ShuffledArrays ==
    LET minLevel == MinLevel(InLines)
    IN  CASE lastCmd = "shuffle-lines" -> OrdererInputs(lastSettings, InLines)
          [] lastCmd = "shuffle-blocks" ->
               {BuiltTree.children[n] : n \in DOMAIN BuiltTree.children}
          [] lastCmd = "shuffle-headings" ->
               IF minLevel = 0 THEN {} ELSE {HeadingBlocks(InLines, minLevel)}
          [] OTHER -> {}

\* no item occurs twice in arr
DistinctItems(arr) == \A i, j \in 1..Len(arr) : arr[i] = arr[j] => i = j

\* every arrangement of the items of arr
PermutationsOf(arr) ==
    {[i \in 1..Len(arr) |-> arr[f[i]]] : f \in Permutations(1..Len(arr))}

\* C20: for an array of n distinct items, each of the n! permutations is
\* returned by shuffleArray under exactly one sequence of index draws (j in
\* 0..i for i = n-1 down to 1), and the call leaves its input array as it was.
C20_ShuffleUnbiased ==
    \A arr \in ShuffledArrays :
        DistinctItems(arr) =>
            LET draws == Draws(Len(arr))
                runs == {shuffleArrayCall(arr, d) : d \in draws}
                returned == {c.returned : c \in runs}
            IN  /\ \A d \in draws :
                      /\ Len(d) = (IF Len(arr) > 0 THEN Len(arr) - 1 ELSE 0)
                      /\ \A i \in 1..Len(d) : d[i] \in 0..i
                /\ \A c \in runs : c.arr = arr
                /\ returned = PermutationsOf(arr)
                /\ Cardinality(returned) = Cardinality(draws)

\* a shuffle command shuffled three distinct items or more into another order
C20_Witness ==
    /\ \E arr \in ShuffledArrays : DistinctItems(arr) /\ Len(arr) >= 3
    /\ lastOut # lastIn

\* C25: in block mode a blank line has level 10 + its indentation and is a
\* leaf of the built tree: no later line becomes its child.
C25_BlankLinesAreLeaves ==
    lastCmd \in BlockCmds =>
        \A i \in 1..Len(InLines) :
            IsBlank(InLines[i]) =>
                /\ BuiltTree.level[i] = 10 + getIndentation(InLines[i])
                /\ BuiltTree.children[i] = <<>>

\* C26: every block command and every heading command returns a text whose
\* lines are a permutation of the lines of its input.
C26_BlockHeadingPermutation ==
    lastCmd \in BlockCmds \cup HeadingCmds =>
        /\ Len(OutLines) = Len(InLines)
        /\ BagOfSeq(OutLines) = BagOfSeq(InLines)

\* a block or heading command moved lines of a text that holds a blank line
\* and a line deeper than its predecessor
C26_Witness ==
    /\ lastCmd \in BlockCmds \cup HeadingCmds
    /\ lastOut # lastIn
    /\ \E i \in 1..Len(InLines) : IsBlank(InLines[i])
    /\ \E i \in 2..Len(InLines) : getLevel(InLines[i]) > getLevel(InLines[i - 1])

\* the concatenation of flattenTree over the nodes of kids, in their order
FlattenEach(tree, kids) ==
    LET rest[k \in 0..Len(kids)] ==
            IF k = 0 THEN <<>> ELSE rest[k - 1] \o flattenTree(tree, kids[k])
    IN  rest[Len(kids)]

\* C27: flattenTree(buildTree(lines)) = lines, and flattenTree emits the line
\* of a node before the lines of its children, taken in their current order,
\* the root emitting no line of its own.
C27_BuildFlattenIdentity ==
    lastCmd \in BlockCmds =>
        /\ flattenTree(BuiltTree, 0) = InLines
        /\ \A t \in {BuiltTree} \cup ReorderedTrees :
              /\ flattenTree(t, 0) = FlattenEach(t, t.children[0])
              /\ \A n \in DOMAIN t.children \ {0} :
                    flattenTree(t, n) = <<t.line[n]>> \o FlattenEach(t, t.children[n])

\* a block command ran on a text in which a child has a child of its own
C27_Witness ==
    /\ lastCmd \in BlockCmds
    /\ \E n \in DOMAIN BuiltTree.children :
          /\ n # 0
          /\ \E k \in 1..Len(BuiltTree.children[n]) :
                BuiltTree.children[BuiltTree.children[n][k]] # <<>>

\* C28: after each line buildTree processes, its stack holds the root at the
\* bottom, the node of that line on top, and nodes of strictly increasing
\* level in between; every line is then the child of some node.
C28_StackNeverEmpty ==
    lastCmd \in BlockCmds =>
        /\ \A k \in 0..Len(InLines) :
              LET stack == buildTreeLoop(InLines, k).stack
              IN  /\ Len(stack) >= 1
                  /\ stack[1] = 0
                  /\ stack[Len(stack)] = k
                  /\ \A p \in 1..(Len(stack) - 1) :
                        BuiltTree.level[stack[p]] < BuiltTree.level[stack[p + 1]]
        /\ \A i \in 1..Len(InLines) :
              \E n \in DOMAIN BuiltTree.children :
                  \E k \in 1..Len(BuiltTree.children[n]) : BuiltTree.children[n][k] = i

\* a block command ran on a text whose stack grew to two nodes above the
\* root and was then popped back to the root by a line
C28_Witness ==
    /\ lastCmd \in BlockCmds
    /\ \E k \in 2..Len(InLines) :
          /\ Len(buildTreeLoop(InLines, k - 1).stack) >= 3
          /\ Len(buildTreeLoop(InLines, k).stack) = 2

\* the leading block of the last heading command's input: the lines before
\* the first heading of the minimum level, <<>> when there is none
LeadingLines ==
    LET minLevel == MinLevel(InLines)
        blocks == HeadingBlocks(InLines, minLevel)
    IN  IF minLevel # 0 /\ blocks[1].heading = <<>> THEN blocks[1].lines ELSE <<>>

\* C29: sort-headings and lexisort-headings leave the leading block (the lines
\* before the first heading of the minimum level) at the start of the output.
C29_LeadingBlockStaysFirst ==
    (lastCmd \in {"sort-headings", "lexisort-headings"} /\ LeadingLines # <<>>) =>
        /\ Len(OutLines) >= Len(LeadingLines)
        /\ SubSeq(OutLines, 1, Len(LeadingLines)) = LeadingLines

\* sort-headings moved sections of a text that begins with a leading block
C29_Witness ==
    /\ lastCmd = "sort-headings"
    /\ LeadingLines # <<>>
    /\ lastOut # lastIn

\* the lines the sort commands of CacheSpec measure
MeasuredLines ==
    UNION {{l \in {split(t)[i] : i \in 1..Len(split(t))} : ~IsBlank(l)} : t \in CacheTexts}

\* what a measurement of src returns when nothing is cached, under the font
\* specification and the theme shown now
FreshEntry(src) == measureEntry(trim(fontSpec), computeHeadingScales(fontSpec), src)

\* C21: whenever a measurement returns, every entry the cache holds was built
\* under the current font specification.
C21_CacheUnderCurrentFont ==
    history.measured => \A e \in renderCache : e.font = trim(fontSpec)

\* C22: while the font specification stays what it was, a cached entry is the
\* entry a fresh measurement returns, so is every entry a command holds, and
\* sort-lines returns the arrangement by fresh widths of the text it read.
C22_CacheTransparent ==
    ~history.fontChanged =>
        /\ \A src \in MeasuredLines :
              \A e \in cacheGet(cacheKey(trim(fontSpec), src)) :
                  /\ e.renderedText = FreshEntry(src).renderedText
                  /\ e.width = FreshEntry(src).width
        /\ \A s \in 1..MaxCalls :
              calls[s] # Idle =>
                  \A i \in 1..Len(calls[s].lines) :
                      calls[s].entries[i] # Pending =>
                          calls[s].entries[i].width = FreshEntry(calls[s].lines[i]).width
        /\ history.event = "replace" =>
              /\ lastOut = sortLinesFrom(lastIn,
                     [i \in 1..Len(FilterBlank(split(lastIn), FALSE)) |->
                         FreshEntry(FilterBlank(split(lastIn), FALSE)[i])])
              /\ fontSpec = NominalFont => lastOut \in sortLines(lastSettings, lastIn)

\* sort-lines took every width from the cache, after the cache was cleared and
\* filled again, and moved a line
C22_Witness ==
    /\ ~history.fontChanged
    /\ history.event = "replace"
    /\ history.hit
    /\ lastOut # lastIn
    /\ \E e \in renderCache : e.stale

\* C23: nothing takes effect while a command is suspended, neither another
\* command, nor a change of the selection, nor a cache invalidation, and the
\* text a command replaces is the text it read.
C23_CommandsRunToCompletion ==
    /\ \A s \in 1..MaxCalls : calls[s] # Idle => calls[s].during = {}
    /\ history.event = "replace" => history.sameText

\* C24: right after a css-change notification or a settings save the cache is
\* empty, and no entry of the cache comes from a measurement that was
\* suspended when the cache was invalidated.
C24_InvalidationTotal ==
    /\ history.event \in {"css-change", "save-settings"} => renderCache = {}
    /\ \A e \in renderCache : ~e.stale

\* C30: a lookup under the current font specification finds no entry that was
\* stored for another font specification or another line.
C30_NoKeyCollision ==
    \A src \in MeasuredLines :
        \A e \in cacheGet(cacheKey(trim(fontSpec), src)) :
            e.font = trim(fontSpec) /\ e.src = src

====
